---- MODULE Spec2Model ----
(***************************************************************************)
(* Energy-based voice activity detector (energy_vad.EnergyVad) and the     *)
(* run_vad driver of its tests, as a state machine.  Spec is the detector  *)
(* driven by any caller, RunVadSpec is run_vad on digital silence, and     *)
(* ReplaySpec is a calibration fed again after reset_calibration.          *)
(*                                                                         *)
(* Numbers.  Python floats are IEEE-754 doubles.  The countdown            *)
(* _calibrate_seconds_left is modelled bit-exactly: a double below 1 is a  *)
(* fixed-point binary numeral of 72 fraction bits, and every division and  *)
(* subtraction is rounded to MantissaBits significant bits, ties to even,  *)
(* as the hardware does.                                                   *)
(* Energies and the statistics over them are modelled in exact arithmetic  *)
(* (the inputs are restricted to chunks whose energies are integers, for   *)
(* which the code's float results are exact as well); a threshold          *)
(* (a + sqrt(b)) / d is the triple <<a, b, d>>.                            *)
(***************************************************************************)
EXTENDS Integers, Sequences, FiniteSets, TLC

_SAMPLE_RATE == 16000
_SAMPLE_WIDTH == 2

\* Significant bits of a Python float (IEEE-754 binary64).
MantissaBits == 53

\* A double x with 0 <= |x| < 1 is the numeral <<l1, l2, l3>> of three limbs,
\* most significant first: |x| = (l1 * Limb^2 + l2 * Limb + l3) / Limb^3.
\* Every double >= 2^-19 (one sample period, 1/16000 s, is > 2^-14) and every
\* difference of two such doubles is such a numeral exactly.
Limb == 2 ^ 24

None == <<>>

(***************************************************************************)
(* Binary floating point, exactly.                                         *)
(***************************************************************************)
IsZero(a) == a[1] = 0 /\ a[2] = 0 /\ a[3] = 0

\* a < b
LimbsLess(a, b) ==
    \/ a[1] < b[1]
    \/ a[1] = b[1] /\ a[2] < b[2]
    \/ a[1] = b[1] /\ a[2] = b[2] /\ a[3] < b[3]

\* a - b, for a >= b
LimbsSub(a, b) ==
    LET d3 == a[3] - b[3]
        b3 == IF d3 < 0 THEN 1 ELSE 0
        d2 == a[2] - b[2] - b3
        b2 == IF d2 < 0 THEN 1 ELSE 0
    IN  <<a[1] - b[1] - b2, d2 + b2 * Limb, d3 + b3 * Limb>>

\* Number of bits of n (0 <= n < Limb).
BitLen(n) == CHOOSE k \in 0..24 : n < 2 ^ k /\ (k = 0 \/ n >= 2 ^ (k - 1))

\* Number of bits of the numeral, from its leading 1 bit to its last bit.
LimbsBitLen(a) ==
    IF a[1] > 0 THEN 48 + BitLen(a[1])
    ELSE IF a[2] > 0 THEN 24 + BitLen(a[2])
    ELSE BitLen(a[3])

\* Round to MantissaBits significant bits, to nearest, ties to even; `sticky`
\* says that the exact value has non-zero bits below the numeral's last bit.
\* At most 72 - 53 bits are dropped, all of them in the last limb.
RoundLimbs(a, sticky) ==
    LET c == LimbsBitLen(a) - MantissaBits
    IN  IF c <= 0 THEN a
        ELSE LET low  == a[3] % (2 ^ c)
                 half == 2 ^ (c - 1)
                 odd  == (a[3] \div (2 ^ c)) % 2 = 1
                 up   == low > half \/ (low = half /\ (sticky \/ odd))
                 t3   == a[3] - low + (IF up THEN 2 ^ c ELSE 0)
                 c3   == IF t3 >= Limb THEN 1 ELSE 0
                 t2   == a[2] + c3
                 c2   == IF t2 >= Limb THEN 1 ELSE 0
             IN  <<a[1] + c2, t2 - c2 * Limb, t3 - c3 * Limb>>

RECURSIVE DivDigits(_, _, _)
\* The first n base-256 digits of the fraction r / q (0 <= r < q), followed by
\* 1 if a remainder is left and 0 if not.
DivDigits(r, q, n) ==
    IF n = 0 THEN <<IF r > 0 THEN 1 ELSE 0>>
    ELSE <<(256 * r) \div q>> \o DivDigits((256 * r) % q, q, n - 1)

\* The double nearest to p / q (0 <= p < q): what Python's int / int and the
\* decimal literal of p / q evaluate to.
FloatDiv(p, q) ==
    LET g == DivDigits(p, q, 9)
        limb(i) == (g[3 * i - 2] * 256 + g[3 * i - 1]) * 256 + g[3 * i]
    IN  [neg |-> FALSE, mag |-> RoundLimbs(<<limb(1), limb(2), limb(3)>>, g[10] = 1)]

\* x - y for doubles x >= 0 and y >= 0, rounded.
FloatSub(x, y) ==
    IF LimbsLess(x.mag, y.mag)
    THEN [neg |-> TRUE,  mag |-> RoundLimbs(LimbsSub(y.mag, x.mag), FALSE)]
    ELSE [neg |-> FALSE, mag |-> RoundLimbs(LimbsSub(x.mag, y.mag), FALSE)]

\* x <= 0 for a double.
FloatLeqZero(x) == x.neg \/ IsZero(x.mag)

(***************************************************************************)
(* Samples and energy (process_chunk, lines 74-80).                        *)
(***************************************************************************)
\* array.array("h", chunk): the bytes, pairwise, as signed 16-bit integers
\* (native byte order, little-endian).
chunk_array(chunk) ==
    [i \in 1..(Len(chunk) \div _SAMPLE_WIDTH) |->
        LET u == chunk[2 * i - 1] + 256 * chunk[2 * i]
        IN  IF u >= 32768 THEN u - 65536 ELSE u]

RECURSIVE SumRange(_, _, _)
\* s[lo] + ... + s[hi]
SumRange(s, lo, hi) ==
    IF lo > hi THEN 0
    ELSE IF lo = hi THEN s[lo]
    ELSE LET mid == (lo + hi) \div 2
         IN  SumRange(s, lo, mid) + SumRange(s, mid + 1, hi)

\* sum(...) over a list
Sum(s) == SumRange(s, 1, Len(s))

\* sum(x ** 2 for x in data)
SumSq(s) == Sum([i \in 1..Len(s) |-> s[i] * s[i]])

IsSquare(n) == \E r \in 0..n : r * r = n

\* math.sqrt, on the perfect squares
Sqrt(n) == CHOOSE r \in 0..n : r * r = n

\* energy = -math.sqrt(sum(x**2 for x in chunk_array) / len(chunk_array))
energy(samples) == -Sqrt(SumSq(samples) \div Len(samples))

\* debiased_energy = math.sqrt(sum((x + energy) ** 2 for x in chunk_array) / len(chunk_array))
debiased_energy(samples) ==
    LET e == energy(samples)
    IN  Sqrt(SumSq([i \in 1..Len(samples) |-> samples[i] + e]) \div Len(samples))

\* The chunks whose two square roots are integers: on these the float
\* computation of lines 77-80 is exact, and so is this model of it.
ExactEnergy(samples) ==
    /\ Len(samples) > 0
    /\ SumSq(samples) % Len(samples) = 0
    /\ IsSquare(SumSq(samples) \div Len(samples))
    /\ LET e == energy(samples)
           q == SumSq([i \in 1..Len(samples) |-> samples[i] + e])
       IN  q % Len(samples) = 0 /\ IsSquare(q \div Len(samples))

(***************************************************************************)
(* Calibration statistics (process_chunk, lines 86-98).  An energy list is *)
(* a sequence of integers; a cutoff is the fraction <<n, d>>, d > 0; a     *)
(* threshold (a + sqrt(b)) / d is <<a, b, d>>.                             *)
(***************************************************************************)
\* sorted(data)[i]
Sorted(data, i) ==
    CHOOSE v \in {data[j] : j \in 1..Len(data)} :
        /\ Cardinality({j \in 1..Len(data) : data[j] < v}) < i
        /\ i <= Cardinality({j \in 1..Len(data) : data[j] <= v})

\* 2 * statistics.median(data), for non-empty data
median2(data) ==
    LET n == Len(data)
    IN  IF n % 2 = 1 THEN 2 * Sorted(data, (n + 1) \div 2)
        ELSE Sorted(data, n \div 2) + Sorted(data, n \div 2 + 1)

\* n * (n - 1) * statistics.variance(data): the sample variance (Bessel's
\* correction) is this number over n * (n - 1).
variance_num(data) == Len(data) * SumSq(data) - Sum(data) * Sum(data)

\* (x - median) / stdev < cutoff, for stdev > 0: with L = 2 * (x - median) * d
\* and R = 2 * n it reads L * sqrt(M) < R * sqrt(V), where stdev^2 = V / M.
zscore_below(x, data, cutoff) ==
    LET L == (2 * x - median2(data)) * cutoff[2]
        R == 2 * cutoff[1]
        V == variance_num(data)
        M == Len(data) * (Len(data) - 1)
    IN  IF L < 0 /\ R >= 0 THEN TRUE
        ELSE IF L >= 0 /\ R <= 0 THEN FALSE
        ELSE IF L >= 0 THEN L * L * M < R * R * V
        ELSE L * L * M > R * R * V

\* (x - median) / stdev > cutoff, for stdev > 0 (see zscore_below)
zscore_above(x, data, cutoff) ==
    LET L == (2 * x - median2(data)) * cutoff[2]
        R == 2 * cutoff[1]
        V == variance_num(data)
        M == Len(data) * (Len(data) - 1)
    IN  IF L > 0 /\ R <= 0 THEN TRUE
        ELSE IF L <= 0 /\ R >= 0 THEN FALSE
        ELSE IF L > 0 THEN L * L * M > R * R * V
        ELSE L * L * M < R * R * V

\* (x - median) / stdev = cutoff, for stdev > 0 (see zscore_below)
zscore_equal(x, data, cutoff) ==
    LET L == (2 * x - median2(data)) * cutoff[2]
        R == 2 * cutoff[1]
        V == variance_num(data)
        M == Len(data) * (Len(data) - 1)
    IN  /\ L * L * M = R * R * V
        /\ (L > 0) = (R > 0)
        /\ (L < 0) = (R < 0)

\* The filter keeping the outliers instead of dropping them.
filter_outliers_inverted(data, cutoff) ==
    SelectSeq(data, LAMBDA x : zscore_above(x, data, cutoff))

\* The filter keeping the energies whose z-score equals the cutoff.
filter_outliers_inclusive(data, cutoff) ==
    SelectSeq(data, LAMBDA x : ~zscore_above(x, data, cutoff))

\* [x for i, x in enumerate(energies) if z_score[i] < cutoff]
filter_outliers(data, cutoff) ==
    SelectSeq(data, LAMBDA x : zscore_below(x, data, cutoff))

\* statistics.mean(energies) + statistics.stdev(energies), for len >= 2
mean_plus_stdev(data) ==
    LET k == Len(data)
        V == variance_num(data)
    IN  IF V = 0 THEN <<Sum(data) \div k, 0, 1>>
        ELSE <<Sum(data) * (k - 1), V * k * (k - 1), k * (k - 1)>>

\* The statistics taking the deviation of fewer than two values as 0.
calibrate_short_data(data, cutoff) ==
    IF Len(data) < 2 THEN [error |-> "", threshold |-> <<Sum(data), 0, 1>>]
    ELSE IF variance_num(data) = 0 THEN [error |-> "ZeroDivisionError", threshold |-> None]
    ELSE LET kept     == filter_outliers(data, cutoff)
             energies == IF kept = <<>> THEN data ELSE kept
         IN  IF Len(energies) < 2 THEN [error |-> "StatisticsError", threshold |-> None]
             ELSE [error |-> "", threshold |-> mean_plus_stdev(energies)]

\* The statistics taken of the filtered energies even when none is left.
calibrate_no_fallback(data, cutoff) ==
    IF Len(data) < 2 THEN [error |-> "StatisticsError", threshold |-> None]
    ELSE IF variance_num(data) = 0 THEN [error |-> "ZeroDivisionError", threshold |-> None]
    ELSE LET energies == filter_outliers(data, cutoff)
         IN  IF Len(energies) < 2 THEN [error |-> "StatisticsError", threshold |-> None]
             ELSE [error |-> "", threshold |-> mean_plus_stdev(energies)]

\* Lines 86-98: the threshold learned from the collected energies, or the
\* exception the statistics raise.
\*   statistics.median([])      -> StatisticsError
\*   statistics.stdev(one item) -> StatisticsError
\*   x / 0.0                    -> ZeroDivisionError
calibrate(data, cutoff) ==
    IF Len(data) < 2 THEN [error |-> "StatisticsError", threshold |-> None]
    ELSE IF variance_num(data) = 0 THEN [error |-> "ZeroDivisionError", threshold |-> None]
    ELSE LET kept     == filter_outliers(data, cutoff)
             energies == IF kept = <<>> THEN data ELSE kept
         IN  IF Len(energies) < 2 THEN [error |-> "StatisticsError", threshold |-> None]
             ELSE [error |-> "", threshold |-> mean_plus_stdev(energies)]

\* x > t for an energy x and a threshold t = (a + sqrt(b)) / d
exceeds(x, t) ==
    LET lhs == x * t[3] - t[1]
    IN  lhs > 0 /\ lhs * lhs > t[2]

\* t >= 0 for a threshold whose a is non-negative
ThresholdNonNegative(t) == t[1] >= 0 /\ t[2] >= 0 /\ t[3] > 0

(***************************************************************************)
(* The detector.                                                           *)
(***************************************************************************)
VARIABLES
    \* EnergyVad attributes
    samples_per_chunk,            \* int
    bytes_per_chunk,              \* int
    seconds_per_chunk,            \* float
    threshold,                    \* None or <<a, b, d>>
    calibrate_seconds,            \* float
    calibrate_zscore_threshold,   \* <<n, d>>
    _calibrate_seconds_left,      \* float
    _calibrate_energies,          \* list of energies
    \* the last call and its outcome
    op,                           \* "__init__", "process_chunk", "reset_calibration"
    chunk,                        \* the argument of the last process_chunk call
    result,                       \* "None", "True", "False" or the exception raised
    \* history
    given,                        \* the constructor's arguments
    ncalibrating,                 \* process_chunk calls that returned None since __init__ / reset
    was_reset,                    \* reset_calibration has been called
    all_zero,                     \* every process_chunk call so far got a full-size all-zero chunk
    nfailed,                      \* finalizations that failed since __init__ / reset, up to MaxFailed
    \* run_vad (tests)
    pc,                           \* "idle", "loop", "raised", "returned"
    audio_len,                    \* len(audio), the audio being digital silence
    offset,
    results,
    \* a calibration replayed after reset_calibration
    stage,                        \* "none", "first", "further", "replay"
    S,                            \* the chunks that took the detector to Active the first time
    T,                            \* the threshold they produced
    N,                            \* the calls that returned None on the way
    fed                           \* how many chunks of S have been fed again

config_vars == <<samples_per_chunk, bytes_per_chunk, seconds_per_chunk,
                 calibrate_seconds, calibrate_zscore_threshold, given>>

state_vars == <<threshold, _calibrate_seconds_left, _calibrate_energies>>

call_vars == <<op, chunk, result, ncalibrating, was_reset, all_zero, nfailed>>

run_vars == <<pc, audio_len, offset, results>>

replay_vars == <<stage, S, T, N, fed>>

vars == <<config_vars, state_vars, call_vars, run_vars, replay_vars>>

Errors == {"ValueError", "StatisticsError", "ZeroDivisionError"}

\* The exceptions of the statistics (lines 86-98).
FinalizeErrors == {"StatisticsError", "ZeroDivisionError"}

Decisions == {"True", "False"}

\* ---- inputs ----------------------------------------------------------

\* Largest calibration window, in chunks, of the configurations explored.
MaxCalibrateChunks == 4

\* Largest audio, in chunks, handed to run_vad.
MaxAudioChunks == 37

\* Failed finalizations are counted up to this number.
MaxFailed == 2

SamplesPerChunkSet == {1, 4, 7}

\* calibrate_seconds, as fractions p / q of a second
CalibrateSecondsSet ==
    {<<0, 1>>, <<1, 16000>>, <<1, 8000>>, <<1, 4000>>, <<1, 3200>>, <<3, 8000>>, <<3, 4000>>,
     <<21, 16000>>}

\* calibrate_zscore_threshold: 1.0 (the default), 0.5, 0.0 and -1.0
ZScoreSet == {<<1, 1>>, <<1, 2>>, <<0, 1>>, <<-1, 1>>}

\* threshold: None (the default), 0.0 and 2.0
ThresholdSet == {None, <<0, 0, 1>>, <<2, 0, 1>>}

SampleValues == {-1, 0, 2}

\* ceil(calibrate_seconds / seconds_per_chunk) of the configuration as given,
\* in exact arithmetic: ceil((p / q) / (spc / 16000)).
CeilChunks(cs, spc) ==
    (cs[1] * _SAMPLE_RATE + cs[2] * spc - 1) \div (cs[2] * spc)

\* The bytes of a list of samples (16-bit two's complement, little-endian).
ToBytes(samples) ==
    [i \in 1..(2 * Len(samples)) |->
        LET u == (samples[(i + 1) \div 2] + 65536) % 65536
        IN  IF i % 2 = 1 THEN u % 256 ELSE u \div 256]

\* bytes(n)
ZeroBytes(n) == [i \in 1..n |-> 0]

\* Full-size chunks: every sample v, or all samples 0 but the last.
GoodChunks ==
    LET cands == {[i \in 1..samples_per_chunk |-> v] : v \in SampleValues}
                 \cup {[i \in 1..samples_per_chunk |-> IF i = samples_per_chunk THEN v ELSE 0] :
                          v \in SampleValues}
    IN  {ToBytes(s) : s \in {c \in cands : ExactEnergy(c)}}

\* Chunks of a wrong size (test_bad_chunk_size passes bytes(bytes_per_chunk + 1)).
BadChunks ==
    {ZeroBytes(n) : n \in {0, bytes_per_chunk - 1, bytes_per_chunk + 1, bytes_per_chunk + 2}}

IsAllZero(c) == \A i \in 1..Len(c) : c[i] = 0

\* ---- __init__ (lines 38-47) -------------------------------------------

\* The constructor dropping its threshold argument.
init_threshold_dropped(t) == None

\* self.threshold = threshold
init_threshold(t) == t

\* self.bytes_per_chunk = self.samples_per_chunk * _SAMPLE_WIDTH
init_bytes_per_chunk(spc) == spc * _SAMPLE_WIDTH

\* The chunk duration taken from the byte count instead of the sample count.
init_seconds_per_chunk_bytes(spc) == FloatDiv(spc * _SAMPLE_WIDTH, _SAMPLE_RATE)

\* self.seconds_per_chunk = self.samples_per_chunk / _SAMPLE_RATE
init_seconds_per_chunk(spc) == FloatDiv(spc, _SAMPLE_RATE)

\* EnergyVad(threshold=t, samples_per_chunk=spc, calibrate_seconds=p/q,
\*           calibrate_zscore_threshold=z)
Construct(t, spc, cs, z) ==
    /\ samples_per_chunk = spc
    /\ bytes_per_chunk = init_bytes_per_chunk(spc)
    /\ seconds_per_chunk = init_seconds_per_chunk(spc)
    /\ threshold = init_threshold(t)
    /\ calibrate_seconds = FloatDiv(cs[1], cs[2])
    /\ calibrate_zscore_threshold = z
    /\ _calibrate_seconds_left = FloatDiv(cs[1], cs[2])
    /\ _calibrate_energies = <<>>
    /\ given = [threshold |-> t, calibrate_seconds |-> cs]
    /\ op = "__init__"
    /\ chunk = <<>>
    /\ result = "None"
    /\ ncalibrating = 0
    /\ was_reset = FALSE
    /\ all_zero = TRUE
    /\ nfailed = 0

\* No replay is being followed.
NoReplay ==
    /\ stage = "none"
    /\ S = <<>>
    /\ T = None
    /\ N = 0
    /\ fed = 0

Init ==
    /\ \E t \in ThresholdSet, spc \in SamplesPerChunkSet,
          cs \in CalibrateSecondsSet, z \in ZScoreSet :
            /\ CeilChunks(cs, spc) <= MaxCalibrateChunks
            /\ Construct(t, spc, cs, z)
    /\ pc = "idle"
    /\ audio_len = 0
    /\ offset = 0
    /\ results = <<>>
    /\ NoReplay

\* ---- reset_calibration (lines 49-53) ----------------------------------

\* reset_calibration keeping the learned threshold.
reset_calibration_keeps_threshold ==
    /\ _calibrate_seconds_left' = calibrate_seconds
    /\ _calibrate_energies' = <<>>
    /\ op' = "reset_calibration"
    /\ result' = "None"
    /\ ncalibrating' = 0
    /\ was_reset' = TRUE
    /\ nfailed' = 0
    /\ UNCHANGED <<config_vars, threshold, chunk, all_zero>>

\* reset_calibration leaving the collected energies in place.
reset_calibration_keeps_energies ==
    /\ _calibrate_seconds_left' = calibrate_seconds
    /\ threshold' = None
    /\ op' = "reset_calibration"
    /\ result' = "None"
    /\ ncalibrating' = 0
    /\ was_reset' = TRUE
    /\ nfailed' = 0
    /\ UNCHANGED <<config_vars, _calibrate_energies, chunk, all_zero>>

reset_calibration ==
    /\ _calibrate_seconds_left' = calibrate_seconds
    /\ _calibrate_energies' = <<>>
    /\ threshold' = None
    /\ op' = "reset_calibration"
    /\ result' = "None"
    /\ ncalibrating' = 0
    /\ was_reset' = TRUE
    /\ nfailed' = 0
    /\ UNCHANGED <<config_vars, chunk, all_zero>>

\* ---- process_chunk (lines 55-106) -------------------------------------

\* The size check rejecting short buffers only.
wrong_size_short_only(c, bpc) == Len(c) < bpc

\* if len(chunk) != self.bytes_per_chunk: raise ValueError
wrong_size(c, bpc) == Len(c) # bpc

\* The countdown taken as over below 0 only.
countdown_over_negative(left) == left.neg /\ ~IsZero(left.mag)

\* if self._calibrate_seconds_left <= 0
countdown_over(left) == FloatLeqZero(left)

\* The countdown never decremented.
countdown_stuck(left, spc_seconds) == left

\* self._calibrate_seconds_left -= self.seconds_per_chunk
countdown(left, spc_seconds) == FloatSub(left, spc_seconds)

\* x >= t for an energy x and a threshold t = (a + sqrt(b)) / d
reaches(x, t) ==
    LET lhs == x * t[3] - t[1]
    IN  lhs >= 0 /\ lhs * lhs >= t[2]

\* The calibrating branch falling through to the decision once the threshold
\* is set.
calibrating_return_falls_through(e, t) ==
    IF t = None THEN "None" ELSE IF exceeds(e, t) THEN "True" ELSE "False"

\* The decision taken with >= instead of >.
decision_inclusive(e, t) == IF reaches(e, t) THEN "True" ELSE "False"

\* return None, at the end of the calibrating branch (line 104); t is the
\* threshold as the branch leaves it, e the chunk's debiased energy
calibrating_return(e, t) == "None"

\* return debiased_energy > self.threshold
decision(e, t) == IF exceeds(e, t) THEN "True" ELSE "False"

\* process_chunk collecting the energy of classified chunks too.
process_chunk_collecting(c) ==
    /\ op' = "process_chunk"
    /\ chunk' = c
    /\ IF wrong_size(c, bytes_per_chunk)
       THEN /\ result' = "ValueError"
            /\ UNCHANGED state_vars
       ELSE LET e == debiased_energy(chunk_array(c))
            IN  IF threshold = None
                THEN IF countdown_over(_calibrate_seconds_left)
                     THEN LET cal == calibrate(_calibrate_energies, calibrate_zscore_threshold)
                          IN  IF cal.error # ""
                              THEN /\ result' = cal.error
                                   /\ UNCHANGED state_vars
                              ELSE /\ threshold' = cal.threshold
                                   /\ result' = calibrating_return(e, cal.threshold)
                                   /\ UNCHANGED <<_calibrate_seconds_left, _calibrate_energies>>
                     ELSE /\ _calibrate_energies' = Append(_calibrate_energies, e)
                          /\ _calibrate_seconds_left' =
                                 countdown(_calibrate_seconds_left, seconds_per_chunk)
                          /\ result' = calibrating_return(e, threshold)
                          /\ UNCHANGED threshold
                ELSE /\ result' = decision(e, threshold)
                     /\ _calibrate_energies' = Append(_calibrate_energies, e)
                     /\ UNCHANGED <<threshold, _calibrate_seconds_left>>
    /\ ncalibrating' = IF result' = "None" THEN ncalibrating + 1 ELSE ncalibrating
    /\ all_zero' = (all_zero /\ ~wrong_size(c, bytes_per_chunk) /\ IsAllZero(c))
    /\ nfailed' = IF result' \in FinalizeErrors /\ nfailed < MaxFailed
                  THEN nfailed + 1 ELSE nfailed
    /\ UNCHANGED <<config_vars, was_reset>>

\* process_chunk starting calibration over when the finalization fails.
process_chunk_restarting(c) ==
    /\ op' = "process_chunk"
    /\ chunk' = c
    /\ IF wrong_size(c, bytes_per_chunk)
       THEN /\ result' = "ValueError"
            /\ UNCHANGED state_vars
       ELSE LET e == debiased_energy(chunk_array(c))
            IN  IF threshold = None
                THEN IF countdown_over(_calibrate_seconds_left)
                     THEN LET cal == calibrate(_calibrate_energies, calibrate_zscore_threshold)
                          IN  IF cal.error # ""
                              THEN /\ result' = cal.error
                                   /\ _calibrate_seconds_left' = calibrate_seconds
                                   /\ _calibrate_energies' = <<>>
                                   /\ UNCHANGED threshold
                              ELSE /\ threshold' = cal.threshold
                                   /\ result' = calibrating_return(e, cal.threshold)
                                   /\ UNCHANGED <<_calibrate_seconds_left, _calibrate_energies>>
                     ELSE /\ _calibrate_energies' = Append(_calibrate_energies, e)
                          /\ _calibrate_seconds_left' =
                                 countdown(_calibrate_seconds_left, seconds_per_chunk)
                          /\ result' = calibrating_return(e, threshold)
                          /\ UNCHANGED threshold
                ELSE /\ result' = decision(e, threshold)
                     /\ UNCHANGED state_vars
    /\ ncalibrating' = IF result' = "None" THEN ncalibrating + 1 ELSE ncalibrating
    /\ all_zero' = (all_zero /\ ~wrong_size(c, bytes_per_chunk) /\ IsAllZero(c))
    /\ nfailed' = IF result' \in FinalizeErrors /\ nfailed < MaxFailed
                  THEN nfailed + 1 ELSE nfailed
    /\ UNCHANGED <<config_vars, was_reset>>

process_chunk(c) ==
    /\ op' = "process_chunk"
    /\ chunk' = c
    /\ IF wrong_size(c, bytes_per_chunk)
       THEN /\ result' = "ValueError"
            /\ UNCHANGED state_vars
       ELSE LET e == debiased_energy(chunk_array(c))
            IN  IF threshold = None
                THEN IF countdown_over(_calibrate_seconds_left)
                     THEN LET cal == calibrate(_calibrate_energies, calibrate_zscore_threshold)
                          IN  IF cal.error # ""
                              THEN /\ result' = cal.error
                                   /\ UNCHANGED state_vars
                              ELSE /\ threshold' = cal.threshold
                                   /\ result' = calibrating_return(e, cal.threshold)
                                   /\ UNCHANGED <<_calibrate_seconds_left, _calibrate_energies>>
                     ELSE /\ _calibrate_energies' = Append(_calibrate_energies, e)
                          /\ _calibrate_seconds_left' =
                                 countdown(_calibrate_seconds_left, seconds_per_chunk)
                          /\ result' = calibrating_return(e, threshold)
                          /\ UNCHANGED threshold
                ELSE /\ result' = decision(e, threshold)
                     /\ UNCHANGED state_vars
    /\ ncalibrating' = IF result' = "None" THEN ncalibrating + 1 ELSE ncalibrating
    /\ all_zero' = (all_zero /\ ~wrong_size(c, bytes_per_chunk) /\ IsAllZero(c))
    /\ nfailed' = IF result' \in FinalizeErrors /\ nfailed < MaxFailed
                  THEN nfailed + 1 ELSE nfailed
    /\ UNCHANGED <<config_vars, was_reset>>

\* ---- the detector driven by any caller --------------------------------

Call ==
    \E c \in GoodChunks \cup BadChunks : process_chunk(c)

Reset == reset_calibration

Next ==
    \/ Call /\ UNCHANGED <<run_vars, replay_vars>>
    \/ Reset /\ UNCHANGED <<run_vars, replay_vars>>

Spec == Init /\ [][Next]_vars

\* ---- run_vad (tests, lines 24-36) on digital silence -------------------

\* vad = EnergyVad(); results = []; offset = 0
RunVadInit ==
    /\ Construct(None, 240, <<1, 2>>, <<1, 1>>)
    /\ pc = "loop"
    /\ audio_len \in {n * (240 * _SAMPLE_WIDTH) + r : n \in 0..MaxAudioChunks, r \in {0, 1}}
    /\ offset = 0
    /\ results = <<>>
    /\ NoReplay

\* One turn of the while loop; an exception leaves run_vad.
RunVadStep ==
    /\ pc = "loop"
    /\ offset + bytes_per_chunk < audio_len
    /\ process_chunk(ZeroBytes(bytes_per_chunk))
    /\ IF result' \in Errors
       THEN /\ pc' = "raised"
            /\ UNCHANGED <<offset, results>>
       ELSE /\ pc' = "loop"
            /\ results' = IF result' # "None" THEN Append(results, result') ELSE results
            /\ offset' = offset + bytes_per_chunk
    /\ UNCHANGED <<audio_len, replay_vars>>

\* return results
RunVadReturn ==
    /\ pc = "loop"
    /\ ~(offset + bytes_per_chunk < audio_len)
    /\ pc' = "returned"
    /\ UNCHANGED <<config_vars, state_vars, call_vars, audio_len, offset, results, replay_vars>>

RunVadNext == RunVadStep \/ RunVadReturn

RunVadSpec == RunVadInit /\ [][RunVadNext]_vars

\* ---- a calibration, further calls, a reset, the same calibration again --

\* The chunks of the further calls: digital silence, a loud chunk, and a
\* chunk one byte too long.
FurtherChunks ==
    {ZeroBytes(bytes_per_chunk), ToBytes([i \in 1..samples_per_chunk |-> -1]),
     ZeroBytes(bytes_per_chunk + 1)}

\* A freshly constructed threshold-unset detector.
ReplayInit ==
    /\ \E spc \in SamplesPerChunkSet, cs \in CalibrateSecondsSet, z \in ZScoreSet :
            /\ CeilChunks(cs, spc) <= MaxCalibrateChunks
            /\ Construct(None, spc, cs, z)
    /\ pc = "idle"
    /\ audio_len = 0
    /\ offset = 0
    /\ results = <<>>
    /\ stage = "first"
    /\ S = <<>>
    /\ T = None
    /\ N = 0
    /\ fed = 0

\* The first calibration: each chunk fed is recorded in S; the call that sets
\* the threshold ends S.  A calibration that has not succeeded after
\* ceil + 2 calls is given up.
FirstFeed ==
    /\ stage = "first"
    /\ Len(S) < CeilChunks(given.calibrate_seconds, samples_per_chunk) + 2
    /\ \E c \in GoodChunks :
            /\ process_chunk(c)
            /\ S' = Append(S, c)
    /\ IF threshold' # None
       THEN /\ stage' = "further"
            /\ T' = threshold'
            /\ N' = ncalibrating'
       ELSE UNCHANGED <<stage, T, N>>
    /\ UNCHANGED <<run_vars, fed>>

\* Any further calls ...
FurtherCall ==
    /\ stage = "further"
    /\ \E c \in FurtherChunks : process_chunk(c)
    /\ UNCHANGED <<run_vars, replay_vars>>

\* ... and resets.
FurtherReset ==
    /\ stage = "further"
    /\ reset_calibration
    /\ UNCHANGED <<run_vars, replay_vars>>

\* Right after a reset, S is fed again, chunk by chunk.
ReplayFeed ==
    /\ \/ stage = "further" /\ op = "reset_calibration"
       \/ stage = "replay"
    /\ fed < Len(S)
    /\ process_chunk(S[fed + 1])
    /\ fed' = fed + 1
    /\ stage' = "replay"
    /\ UNCHANGED <<run_vars, S, T, N>>

ReplayNext == FirstFeed \/ FurtherCall \/ FurtherReset \/ ReplayFeed

ReplaySpec == ReplayInit /\ [][ReplayNext]_vars

(***************************************************************************)
(* Properties.                                                             *)
(***************************************************************************)
\* The debiased energy of the last chunk passed to process_chunk.
ChunkEnergy == debiased_energy(chunk_array(chunk))

FullSize == Len(chunk) = bytes_per_chunk

\* C1: in every state, calibrating or active, process_chunk with a buffer
\* whose length differs from bytes_per_chunk raises ValueError and leaves
\* threshold, _calibrate_seconds_left and _calibrate_energies unchanged.
C1_WrongSizeRejected ==
    [][(op' = "process_chunk" /\ Len(chunk') # bytes_per_chunk)
          => (result' = "ValueError" /\ UNCHANGED state_vars)]_vars

\* A wrong-size call rejected in mid-calibration, energies already collected.
C1_Witness ==
    /\ op = "process_chunk"
    /\ Len(chunk) = bytes_per_chunk + 1
    /\ result = "ValueError"
    /\ threshold = None
    /\ Len(_calibrate_energies) > 0

\* C2: a process_chunk call that completes returns None exactly when the
\* threshold was unset as the call began, and a boolean exactly when it was set.
C2_TriState ==
    [][(op' = "process_chunk" /\ result' \notin Errors)
          => /\ (result' = "None") <=> (threshold = None)
             /\ (result' \in Decisions) <=> (threshold # None)]_vars

\* The finalizing call: it returned None although it set the threshold.
C2_Witness ==
    /\ op = "process_chunk"
    /\ result = "None"
    /\ threshold # None
    /\ given.threshold = None

\* C3: with the threshold set, a full-size chunk is Speech exactly when its
\* debiased energy is strictly greater than the threshold, Silence otherwise;
\* an energy equal to the threshold is Silence.
C3_StrictDecision ==
    [][(op' = "process_chunk" /\ Len(chunk') = bytes_per_chunk /\ threshold # None)
          => LET e == debiased_energy(chunk_array(chunk'))
                 a == threshold[1]
                 b == threshold[2]
                 d == threshold[3]
             IN  /\ (result' = "True") <=> (e * d > a /\ (e * d - a) * (e * d - a) > b)
                 /\ (result' = "False") <=> ~(e * d > a /\ (e * d - a) * (e * d - a) > b)
                 /\ (e * d >= a /\ (e * d - a) * (e * d - a) = b) => result' = "False"]_vars

\* A chunk whose energy equals the threshold, classified Silence.
C3_Witness ==
    /\ op = "process_chunk"
    /\ FullSize
    /\ threshold = <<2, 0, 1>>
    /\ ChunkEnergy = 2
    /\ result = "False"

\* C4: a detector constructed with a preset threshold starts active: as long
\* as reset_calibration is not called the threshold stays the preset value, no
\* call returns None, and every full-size call returns the decision against
\* the preset value.
C4_PresetSkipsCalibration ==
    (given.threshold # None /\ ~was_reset)
        => /\ threshold = given.threshold
           /\ ncalibrating = 0
           /\ _calibrate_energies = <<>>
           /\ (op = "process_chunk" /\ FullSize)
                 => /\ result \in Decisions
                    /\ (result = "True") <=> exceeds(ChunkEnergy, given.threshold)

\* The first chunks of a preset detector, one of them classified Speech.
C4_Witness ==
    /\ given.threshold # None
    /\ ~was_reset
    /\ op = "process_chunk"
    /\ result = "True"

\* ceil(calibrate_seconds / seconds_per_chunk) of the detector's configuration.
Ceil == CeilChunks(given.calibrate_seconds, samples_per_chunk)

\* A boolean was returned by a detector constructed without a threshold and
\* never reset: ncalibrating is then the number of calls that returned None
\* before the first boolean.
FirstCycleActive ==
    /\ given.threshold = None
    /\ ~was_reset
    /\ op = "process_chunk"
    /\ result \in Decisions

\* C5, as stated: the number of calls returning None before the first boolean
\* is ceil(calibrate_seconds / seconds_per_chunk), within one chunk.
C5_CeilWithinOne ==
    FirstCycleActive => (ncalibrating >= Ceil - 1 /\ ncalibrating <= Ceil + 1)

\* C5, amended: the number of calls returning None before the first boolean
\* is ceil(calibrate_seconds / seconds_per_chunk) + 1, within one chunk: the
\* call that finalizes the threshold returns None too, and the rounding of the
\* float countdown can add a chunk.
C5_CeilPlusOneWithinOne ==
    FirstCycleActive => (ncalibrating >= Ceil /\ ncalibrating <= Ceil + 2)

\* The countdown rounding adds a chunk: 3 chunks of 7 samples are 21/16000 s,
\* yet 5 calls return None.
C5_Witness ==
    /\ FirstCycleActive
    /\ Ceil = 3
    /\ ncalibrating = Ceil + 2

\* C6: on a stream of full-size all-zero chunks only, a detector constructed
\* without a threshold completes calibration with a threshold >= 0 and then
\* returns Silence for every chunk.  (Stated for the streams long enough to
\* collect two energies, the least that finalization needs.)
C6_SilenceCalibrates ==
    (given.threshold = None /\ ~was_reset /\ all_zero /\ op = "process_chunk"
        /\ Len(_calibrate_energies) >= 2)
        => /\ result \notin Errors
           /\ (countdown_over(_calibrate_seconds_left)
                  /\ ncalibrating > Len(_calibrate_energies))
                 => (threshold # None /\ ThresholdNonNegative(threshold))
           /\ result \in Decisions => result = "False"

\* The 35th call of run_vad has been made: it returned (offset advanced past
\* 35 chunks) or raised (offset still at 34 chunks).
ThirtyFifthCallMade ==
    \/ offset = 35 * bytes_per_chunk
    \/ offset = 34 * bytes_per_chunk /\ pc = "raised"

C8_SilenceNeverFails ==
    (op = "process_chunk" /\ FullSize /\ IsAllZero(chunk)
        /\ Len(_calibrate_energies) >= 2)
        => result \notin Errors

\* C9: process_chunk fails only on a wrong chunk length or on fewer than two
\* collected energies at finalization; the state being left unchanged by a
\* failing call, the state after it shows what the call began with.
C9_OnlyTwoFailures ==
    (op = "process_chunk" /\ result \in Errors)
        => \/ ~FullSize
           \/ /\ threshold = None
              /\ countdown_over(_calibrate_seconds_left)
              /\ Len(_calibrate_energies) < 2

\* C10: reset_calibration always succeeds, and leaves _calibrate_energies
\* empty, _calibrate_seconds_left equal to calibrate_seconds and the threshold
\* unset, whatever the state; the configuration is unchanged.
C10_ResetRestarts ==
    [][op' = "reset_calibration"
          => /\ result' = "None"
             /\ _calibrate_energies' = <<>>
             /\ _calibrate_seconds_left' = calibrate_seconds
             /\ threshold' = None
             /\ samples_per_chunk' = samples_per_chunk
             /\ bytes_per_chunk' = bytes_per_chunk
             /\ seconds_per_chunk' = seconds_per_chunk
             /\ calibrate_seconds' = calibrate_seconds
             /\ calibrate_zscore_threshold' = calibrate_zscore_threshold]_vars

\* A detector with a preset threshold, reset: it is calibrating.
C10_Witness ==
    /\ op = "reset_calibration"
    /\ given.threshold # None
    /\ threshold = None
    /\ _calibrate_energies = <<>>
    /\ _calibrate_seconds_left = calibrate_seconds

\* C11: the chunks S that took a freshly constructed threshold-unset detector
\* to Active with threshold T, fed again after any further calls and a
\* reset_calibration, leave the threshold unset until the last of them, which
\* sets the threshold T again, after the same number of calls returning None.
C11_ReplayReproduces ==
    stage = "replay"
        => /\ fed < Len(S) => threshold = None
           /\ fed = Len(S) => (threshold = T /\ ncalibrating = N)

\* S replayed in full: the threshold is T again, learned from energies that
\* are not all equal, after at least three calls returning None.
C11_Witness ==
    /\ stage = "replay"
    /\ fed = Len(S)
    /\ threshold = T
    /\ T # None /\ T[2] > 0
    /\ ncalibrating = N /\ N >= 3

\* C12: a full-size process_chunk call that attempts finalization (threshold
\* unset, countdown at or below 0) with fewer than 2 collected energies raises
\* StatisticsError instead of returning, and the threshold stays unset, the
\* energies and the countdown unchanged.
C12_TooFewEnergies ==
    [][(/\ op' = "process_chunk"
        /\ Len(chunk') = bytes_per_chunk
        /\ threshold = None
        /\ countdown_over(_calibrate_seconds_left)
        /\ Len(_calibrate_energies) < 2)
          => /\ result' = "StatisticsError"
             /\ threshold' = None
             /\ UNCHANGED state_vars]_vars

\* calibrate_seconds shorter than one chunk: the second call attempts
\* finalization with the single energy collected, and fails.
C12_Witness ==
    /\ op = "process_chunk"
    /\ FullSize
    /\ result = "StatisticsError"
    /\ threshold = None
    /\ Len(_calibrate_energies) = 1
    /\ given.calibrate_seconds[1] > 0
    /\ given.calibrate_seconds[1] * _SAMPLE_RATE < given.calibrate_seconds[2] * samples_per_chunk

\* t = mean(data) + stdev(data), stdev the sample standard deviation, for a
\* threshold t = (a + sqrt(b)) / d: a / d is the mean and b / d^2 the variance.
IsMeanPlusStdev(t, data) ==
    /\ t # None
    /\ t[1] * Len(data) = Sum(data) * t[3]
    /\ t[2] * Len(data) * (Len(data) - 1) = variance_num(data) * t[3] * t[3]

\* C13: when finalization is attempted on energies whose z-scores are defined
\* (two energies or more, not all equal) and none of them is below
\* calibrate_zscore_threshold, so that the filter keeps nothing, the call does
\* not raise: it returns None and sets the threshold to the mean plus the
\* sample standard deviation of all the collected energies.
C13_EmptyFilterFallsBack ==
    [][(/\ op' = "process_chunk"
        /\ Len(chunk') = bytes_per_chunk
        /\ threshold = None
        /\ countdown_over(_calibrate_seconds_left)
        /\ Len(_calibrate_energies) >= 2
        /\ variance_num(_calibrate_energies) # 0
        /\ \A i \in 1..Len(_calibrate_energies) :
               ~zscore_below(_calibrate_energies[i], _calibrate_energies,
                             calibrate_zscore_threshold))
          => /\ result' = "None"
             /\ IsMeanPlusStdev(threshold', _calibrate_energies)
             /\ UNCHANGED <<_calibrate_energies, _calibrate_seconds_left>>]_vars

\* Three energies, every z-score above the cutoff: the threshold learned is
\* that of all three.
C13_Witness ==
    /\ op = "process_chunk"
    /\ result = "None"
    /\ threshold # None
    /\ given.threshold = None
    /\ Len(_calibrate_energies) >= 3
    /\ \A i \in 1..Len(_calibrate_energies) :
           zscore_above(_calibrate_energies[i], _calibrate_energies,
                        calibrate_zscore_threshold)
    /\ IsMeanPlusStdev(threshold, _calibrate_energies)

\* A full-size process_chunk call is being made with the threshold unset and
\* the countdown at or below 0: the call that attempts to finalize.
FinalizingCall ==
    /\ op' = "process_chunk"
    /\ Len(chunk') = bytes_per_chunk
    /\ threshold = None
    /\ countdown_over(_calibrate_seconds_left)

\* C14, as stated: the finalizing chunk returns None, is not classified, and
\* its energy is neither appended to the energies nor used in the threshold.
C14_FinalizingChunkCalibrating ==
    [][FinalizingCall
          => /\ result' = "None"
             /\ UNCHANGED <<_calibrate_energies, _calibrate_seconds_left>>]_vars

\* C14, amended: the finalizing chunk is never classified and its energy is
\* neither appended nor counted down; when the statistics of the energies
\* collected before it can be taken, it returns None and sets the threshold
\* they give, whatever its own energy; when they cannot, it raises and the
\* threshold stays unset.  The first decision is for the full-size chunk
\* after a finalizing chunk that returned None.
C14_FinalizingChunkNotClassified ==
    [][/\ FinalizingCall
          => LET cal == calibrate(_calibrate_energies, calibrate_zscore_threshold)
             IN  /\ result' \notin Decisions
                 /\ UNCHANGED <<_calibrate_energies, _calibrate_seconds_left>>
                 /\ cal.error = ""
                       => (result' = "None" /\ threshold' = cal.threshold)
                 /\ cal.error # ""
                       => (result' = cal.error /\ threshold' = None)
       /\ (/\ op = "process_chunk" /\ result = "None" /\ threshold # None
           /\ op' = "process_chunk" /\ Len(chunk') = bytes_per_chunk)
          => result' \in Decisions]_vars

\* A loud chunk finalized a threshold learned from quieter energies: it
\* returned None, and the threshold is below its energy.
C14_Witness ==
    /\ op = "process_chunk"
    /\ result = "None"
    /\ given.threshold = None
    /\ threshold # None
    /\ ChunkEnergy = 2
    /\ \A i \in 1..Len(_calibrate_energies) : _calibrate_energies[i] < 2
    /\ exceeds(ChunkEnergy, threshold)

\* C15: with the threshold set, preset or learned, a process_chunk call,
\* returning or raising, leaves threshold, _calibrate_energies and
\* _calibrate_seconds_left unchanged; only reset_calibration changes them, and
\* it unsets the threshold.  So the threshold is set at most once between two
\* resets and every decision in between is taken against the same value.
C15_ActiveStateFrozen ==
    [][threshold # None
          => /\ op' = "process_chunk" => UNCHANGED state_vars
             /\ state_vars' # state_vars
                   => (op' = "reset_calibration" /\ threshold' = None)
             /\ (op' = "process_chunk" /\ result' \in Decisions)
                   => result' = decision(debiased_energy(chunk_array(chunk')), threshold')]_vars

\* A learned threshold in use: a chunk has been classified and the energies
\* and the countdown are as calibration left them.
C15_Witness ==
    /\ given.threshold = None
    /\ threshold # None
    /\ op = "process_chunk"
    /\ result = "True"
    /\ Len(_calibrate_energies) >= 2
    /\ countdown_over(_calibrate_seconds_left)
    /\ ncalibrating = Len(_calibrate_energies) + 1

\* The energies of data whose z-score is neither above the cutoff nor equal
\* to it, or all of data when there is none.
Qualifying(data, cutoff) ==
    LET F == SelectSeq(data, LAMBDA x : /\ ~zscore_above(x, data, cutoff)
                                        /\ ~zscore_equal(x, data, cutoff))
    IN  IF F = <<>> THEN data ELSE F

\* C16: a finalizing call that succeeds sets the threshold to the mean plus
\* the sample standard deviation of F, the collected energies whose z-score
\* against the median and the sample standard deviation of all the collected
\* energies is strictly below calibrate_zscore_threshold, or all the collected
\* energies when there is none; an energy whose z-score equals the cutoff is
\* not in F.
C16_LearnedThreshold ==
    [][(FinalizingCall /\ result' = "None")
          => IsMeanPlusStdev(threshold',
                 Qualifying(_calibrate_energies, calibrate_zscore_threshold))]_vars

\* A threshold learned with an energy left out because its z-score equals
\* the cutoff: of the energies 0, 1, 2 (median 1, deviation 1) and the cutoff
\* 1.0, the energy 2 is left out.
C16_Witness ==
    /\ op = "process_chunk"
    /\ result = "None"
    /\ given.threshold = None
    /\ threshold # None
    /\ \E i \in 1..Len(_calibrate_energies) :
           zscore_equal(_calibrate_energies[i], _calibrate_energies,
                        calibrate_zscore_threshold)
    /\ Len(Qualifying(_calibrate_energies, calibrate_zscore_threshold))
           < Len(_calibrate_energies)
    /\ IsMeanPlusStdev(threshold,
           Qualifying(_calibrate_energies, calibrate_zscore_threshold))

RECURSIVE CountdownAfter(_)
\* calibrate_seconds after n subtractions of seconds_per_chunk, each rounded.
CountdownAfter(n) ==
    IF n = 0 THEN calibrate_seconds
    ELSE FloatSub(CountdownAfter(n - 1), seconds_per_chunk)

\* calibrate_seconds - n * seconds_per_chunk <= 0 in exact arithmetic, for
\* the configuration as given: p / q - n * samples_per_chunk / 16000 <= 0.
ExactlyExhausted(n) ==
    given.calibrate_seconds[1] * _SAMPLE_RATE
        - n * samples_per_chunk * given.calibrate_seconds[2] <= 0

\* The energies change only by reset_calibration emptying them and by a
\* full-size process_chunk call, made with the threshold unset and the
\* countdown above 0, appending the chunk's energy.
AppendedOnlyWhileCountingDown ==
    _calibrate_energies' # _calibrate_energies
        => \/ op' = "reset_calibration" /\ _calibrate_energies' = <<>>
           \/ /\ op' = "process_chunk"
              /\ Len(chunk') = bytes_per_chunk
              /\ threshold = None
              /\ ~_calibrate_seconds_left.neg /\ ~IsZero(_calibrate_seconds_left.mag)
              /\ _calibrate_energies' =
                     Append(_calibrate_energies, debiased_energy(chunk_array(chunk')))

\* C17, as stated: the countdown is exhausted exactly when
\* calibrate_seconds - len(energies) * seconds_per_chunk <= 0, and
\* len(energies) never exceeds the least n >= 0 with
\* calibrate_seconds - n * seconds_per_chunk <= 0.
C17_ExactCountdown ==
    /\ countdown_over(_calibrate_seconds_left)
           <=> ExactlyExhausted(Len(_calibrate_energies))
    /\ Len(_calibrate_energies) <= Ceil

\* C17, amended: the countdown is calibrate_seconds after len(energies)
\* rounded subtractions of seconds_per_chunk; it is above 0 as long as the
\* exact difference is, but the rounding can leave it above 0 when the exact
\* difference is 0, so len(energies) never exceeds one more than the least
\* n >= 0 with calibrate_seconds - n * seconds_per_chunk <= 0.  An energy is
\* appended only by a full-size call made with the threshold unset and the
\* countdown above 0, and the energies stop growing once it is exhausted.
C17_RoundedCountdown ==
    /\ [](/\ _calibrate_seconds_left = CountdownAfter(Len(_calibrate_energies))
          /\ Len(_calibrate_energies) <= Ceil + 1
          /\ countdown_over(_calibrate_seconds_left)
                 => ExactlyExhausted(Len(_calibrate_energies))
          /\ Len(_calibrate_energies) = Ceil + 1
                 => countdown_over(_calibrate_seconds_left))
    /\ [][AppendedOnlyWhileCountingDown]_vars

\* One energy more than the exact count: 3 chunks of 7 samples are 21/16000 s
\* exactly, and a 4th energy has just been appended.
C17_Witness ==
    /\ op = "process_chunk"
    /\ result = "None"
    /\ threshold = None
    /\ Ceil = 3
    /\ ExactlyExhausted(3)
    /\ Len(_calibrate_energies) = 4
    /\ countdown_over(_calibrate_seconds_left)

\* The finalization of the collected energies cannot succeed: the threshold
\* is unset, the countdown exhausted, and the energies are fewer than two, or
\* all equal, or such that the filter leaves a single one.
FinalizationFails ==
    /\ threshold = None
    /\ countdown_over(_calibrate_seconds_left)
    /\ \/ Len(_calibrate_energies) < 2
       \/ variance_num(_calibrate_energies) = 0
       \/ Len(Qualifying(_calibrate_energies, calibrate_zscore_threshold)) < 2

\* C18: a finalizing call that fails leaves the threshold unset and the
\* energies and the countdown unchanged; from then on, until
\* reset_calibration is called, every process_chunk call raises and changes
\* nothing, every full-size one raising the same exception as the first,
\* whatever its samples, and none returns a decision.
C18_FailurePermanent ==
    [][/\ (FinalizingCall /\ result' \in Errors)
          => (FinalizationFails /\ result' \in FinalizeErrors)
       /\ (op' # "reset_calibration" /\ FinalizationFails)
          => /\ result' \in Errors
             /\ UNCHANGED <<state_vars, calibrate_zscore_threshold>>
             /\ Len(chunk') = bytes_per_chunk => result' \in FinalizeErrors
       /\ (nfailed > 0 /\ op' = "process_chunk" /\ Len(chunk') = bytes_per_chunk)
          => /\ FinalizationFails
             /\ result' \in FinalizeErrors
             /\ op = "process_chunk" /\ result \in FinalizeErrors => result' = result]_vars

\* A second failure: after energies that are all silence and a finalization
\* that failed, a loud chunk fails too.
C18_Witness ==
    /\ op = "process_chunk"
    /\ FullSize
    /\ ChunkEnergy = 2
    /\ result = "ZeroDivisionError"
    /\ nfailed = 2
    /\ threshold = None
    /\ Len(_calibrate_energies) >= 2
    /\ \A i \in 1..Len(_calibrate_energies) : _calibrate_energies[i] = 0

\* The energies of data that are not above its median.
NotAboveMedian(data) == SelectSeq(data, LAMBDA x : 2 * x <= median2(data))

\* C19: when finalization is attempted with calibrate_zscore_threshold > 0 on
\* three or more collected energies that are not all equal, every energy not
\* above the median has a z-score below the cutoff and there are at least two
\* of them, so the call succeeds: it returns None and sets a threshold >= 0.
C19_PositiveCutoffSucceeds ==
    [][(/\ FinalizingCall
        /\ calibrate_zscore_threshold[1] > 0
        /\ Len(_calibrate_energies) >= 3
        /\ variance_num(_calibrate_energies) # 0)
          => /\ Len(NotAboveMedian(_calibrate_energies)) >= 2
             /\ \A i \in 1..Len(_calibrate_energies) :
                    2 * _calibrate_energies[i] <= median2(_calibrate_energies)
                       => /\ ~zscore_above(_calibrate_energies[i], _calibrate_energies,
                                           calibrate_zscore_threshold)
                          /\ ~zscore_equal(_calibrate_energies[i], _calibrate_energies,
                                           calibrate_zscore_threshold)
             /\ result' = "None"
             /\ threshold' # None
             /\ threshold'[1] >= 0 /\ threshold'[2] >= 0 /\ threshold'[3] > 0
             /\ Len(Qualifying(_calibrate_energies, calibrate_zscore_threshold))
                    >= Len(NotAboveMedian(_calibrate_energies))
             /\ IsMeanPlusStdev(threshold',
                    Qualifying(_calibrate_energies, calibrate_zscore_threshold))]_vars

\* Three energies or more, the loudest dropped by the filter, two or more
\* kept: the detector is Active.
C19_Witness ==
    /\ op = "process_chunk"
    /\ result = "None"
    /\ given.threshold = None
    /\ threshold # None
    /\ calibrate_zscore_threshold[1] > 0
    /\ Len(_calibrate_energies) >= 3
    /\ variance_num(_calibrate_energies) # 0
    /\ Len(Qualifying(_calibrate_energies, calibrate_zscore_threshold)) >= 2
    /\ Len(Qualifying(_calibrate_energies, calibrate_zscore_threshold))
           = Len(NotAboveMedian(_calibrate_energies))
    /\ Len(NotAboveMedian(_calibrate_energies)) < Len(_calibrate_energies)

====
